---- MODULE Spec2Model ----
(***************************************************************************)
(* Model of PWGLF/Tasks/chargedkstaranalysis.cxx: the candidate selectors, *)
(* the same-event pairing engine (processSE) and the mixed-event pairing   *)
(* engine (processME) of the charged K* analysis task.                     *)
(*                                                                         *)
(* Units.  Floating-point columns are carried as scaled integers:          *)
(*   momenta, masses, energies : 1e-4 GeV                                  *)
(*   lengths (DCA, radius, z)  : 0.01 cm                                   *)
(*   cos(PA), qt, alpha        : 0.001                                     *)
(*   n-sigma, centrality, mult : 1                                         *)
(*   distovertotmom            : 0.01 cm / GeV                             *)
(* A candidate's (pt, eta, phi) is carried in its cartesian form           *)
(* (px, py, pz), which is what ROOT converts it to before adding vectors.  *)
(***************************************************************************)
EXTENDS Integers, Sequences, FiniteSets, Bags, TLC

VARIABLES cfg, collisions, tracks, V0s, seNext, meDone, histos, lastCall,
          CKSVector, ret

vars == <<cfg, collisions, tracks, V0s, seNext, meDone, histos, lastCall,
          CKSVector, ret>>

\* ------------------------------------------------------------------ bounds
\* Most collisions in a data frame.
MaxColl == 2
\* Most V0 rows of the one collision of a single-collision data frame.
MaxV0s == 2
\* Most processSE calls on one collision.
MaxRuns == 2

\* ------------------------------------------------------- program constants
\* TDatabasePDG mass of the charged pion, 0.13957 GeV.
massPi == 1396
\* TDatabasePDG mass of the K0 short, 0.49761 GeV.
massK0s == 4976
\* The literal 0.497 at the centre of SelectionV0's mass window.
massWindowCentre == 4970
\* tanh(0.5) in 1e-4: |y| < 0.5  <=>  |pz| < tanh(0.5) * E.
tanhHalf == 4621
\* sinh(0.8) in 1e-4: |eta| < 0.8  <=>  |pz| < sinh(0.8) * pt
\* (cfgCutEta and ConfDaughEta are both 0.8).
sinhEtaCut == 8881
\* cfgCutPT, 0.2 GeV.
cfgCutPT == 2000
\* cfgCutDCAxy and cfgCutDCAz, 2.0 cm.
cfgCutDCAxy == 200
cfgCutDCAz == 200
\* cutzvertex, 10 cm.
cutzvertex == 1000
\* nsigmaCutTPC and nsigmaCutCombined, 3.0.
nsigmaCutTPC == 3
nsigmaCutCombined == 3
\* V0 topology cuts.
cMaxV0DCA == 30
ConfV0PtMin == 0
ConfV0DCADaughMax == 100
ConfV0CPAMin == 985
ConfV0TranRadV0Min == 50
ConfV0TranRadV0Max == 20000
\* cMaxV0LifeTime, 15 cm, in 1e-6 cm (distovertotmom * mass).
cMaxV0LifeTime == 15000000
\* V0 daughter cuts.
ConfDaughTPCnclsMin == 70
ConfDaughDCAMin == 6
ConfDaughPIDCuts == 4
minCrossedRows == 70
minCrossedRowsOverFindable == 80
\* axisVertex {20, -10, 10}: 20 bins of 1 cm from -10 cm.
axisVertexN == 20
axisVertexLo == -1000
axisVertexWidth == 100
\* axisMultiplicity {2000, 0, 10000}: 2000 bins of width 5 from 0.
axisMultiplicityN == 2000
axisMultiplicityLo == 0
axisMultiplicityWidth == 5

\* ------------------------------------------------------------- arithmetic
Abs(x) == IF x < 0 THEN -x ELSE x

RECURSIVE IsqrtIter(_, _)
IsqrtIter(n, x) ==
  LET y == (x + n \div x) \div 2
  IN  IF y >= x THEN x ELSE IsqrtIter(n, y)

\* Integer square root (floor), standing for std::sqrt on the scaled value;
\* the iteration starts above the root of every 32-bit value.
Isqrt(n) == IF n <= 0 THEN 0 ELSE IsqrtIter(n, IF n > 46340 THEN 46340 ELSE n)

\* ROOT::Math::PtEtaPhiMVector(pt, eta, phi, m) / TLorentzVector::SetPtEtaPhiM
\* in cartesian coordinates.
PtEtaPhiMVector(c, m) ==
  [px |-> c.px, py |-> c.py, pz |-> c.pz,
   E |-> Isqrt(m * m + c.px * c.px + c.py * c.py + c.pz * c.pz)]

\* operator+ of two 4-vectors.
VecAdd(a, b) ==
  [px |-> a.px + b.px, py |-> a.py + b.py, pz |-> a.pz + b.pz, E |-> a.E + b.E]

VecPt(v) == Isqrt(v.px * v.px + v.py * v.py)

VecM(v) == Isqrt(v.E * v.E - v.px * v.px - v.py * v.py - v.pz * v.pz)

\* TMath::Abs(v.Rapidity()) < 0.5
RapidityBelowHalf(v) == Abs(v.pz) * 10000 < tanhHalf * v.E

\* pt() of a table row.
Pt(c) == Isqrt(c.px * c.px + c.py * c.py)

\* std::abs(eta) > 0.8 and nabs(eta) < 0.8 of a table row.
AbsEtaAbove(c) == Abs(c.pz) * 10000 > sinhEtaCut * Pt(c)
AbsEtaBelow(c) == Abs(c.pz) * 10000 < sinhEtaCut * Pt(c)

\* TMath::Abs(candidate.yK0Short()) > 0.5: rapidity under the K0s mass.
AbsYK0ShortAboveHalf(v0) ==
  Abs(v0.pz) * 10000 > tanhHalf * PtEtaPhiMVector(v0, massK0s).E

\* -------------------------------------------------------------- selectors
\* The condition selectionTrack tests when iscustomDCAcut is set.
PolicyA(candidate) ==
  candidate.isGlobalTrack \/ candidate.isPVContributor
    \/ candidate.itsNCls > cfg.cfgITScluster

\* The condition selectionTrack tests when ismanualDCAcut is set.
PolicyB(candidate) ==
  candidate.isGlobalTrackWoDCA \/ candidate.isPVContributor
    \/ Abs(candidate.dcaXY) < cfgCutDCAxy
    \/ Abs(candidate.dcaZ) < cfgCutDCAz
    \/ candidate.itsNCls > cfg.cfgITScluster

\* Faulty variant of selectionTrack: the iscustomDCAcut test is missing.
selectionTrackNoCustom(candidate) ==
  IF cfg.ismanualDCAcut /\ ~PolicyB(candidate) THEN FALSE ELSE TRUE

selectionTrack(candidate) ==
  IF cfg.iscustomDCAcut /\ ~PolicyA(candidate) THEN FALSE
  ELSE IF cfg.ismanualDCAcut /\ ~PolicyB(candidate) THEN FALSE
  ELSE TRUE

selectionPID(candidate) ==
  IF candidate.hasTOF
       /\ candidate.tofNSigmaPi * candidate.tofNSigmaPi
            + candidate.tpcNSigmaPi * candidate.tpcNSigmaPi
          < nsigmaCutCombined * nsigmaCutCombined
    THEN TRUE
  ELSE IF ~candidate.hasTOF /\ Abs(candidate.tpcNSigmaPi) < nsigmaCutTPC
    THEN TRUE
  ELSE FALSE

\* arm < 0.2 with arm = qtarm / alph in IEEE-754 single precision: a zero
\* alph makes arm +inf (qtarm > 0), NaN (qtarm = 0) or -inf (qtarm < 0), and
\* only -inf compares below 0.2.
ArmBelowCut(qtarm, alph) ==
  IF alph > 0 THEN 5 * qtarm < alph
  ELSE IF alph < 0 THEN 5 * qtarm > alph
  ELSE qtarm < 0

\* float CtauK0s = distovertotmom(...) * mass(K0Short)
CtauK0s(candidate) == candidate.distovertotmom * massK0s

lowmasscutks0 == massWindowCentre - cfg.cWidthKs0 * cfg.cSigmaMassKs0
highmasscutks0 == massWindowCentre + cfg.cWidthKs0 * cfg.cSigmaMassKs0

\* The return value of SelectionV0; its monitoring fills are SelectionV0Fills.
SelectionV0(collision, candidate) ==
  IF Abs(candidate.dcav0topv) > cMaxV0DCA THEN FALSE
  ELSE IF AbsYK0ShortAboveHalf(candidate) THEN FALSE
  ELSE IF Pt(candidate) < ConfV0PtMin THEN FALSE
  ELSE IF candidate.dcaV0daughters > ConfV0DCADaughMax THEN FALSE
  ELSE IF candidate.v0cosPA < ConfV0CPAMin THEN FALSE
  ELSE IF candidate.v0radius < ConfV0TranRadV0Min THEN FALSE
  ELSE IF candidate.v0radius > ConfV0TranRadV0Max THEN FALSE
  ELSE IF Abs(CtauK0s(candidate)) > cMaxV0LifeTime
            \/ candidate.mK0Short < lowmasscutks0
            \/ candidate.mK0Short > highmasscutks0 THEN FALSE
  ELSE IF ArmBelowCut(candidate.qtarm, candidate.alpha) THEN FALSE
  ELSE TRUE

isSelectedV0Daughter(track, charge, nsigmaV0Daughter) ==
  IF ~track.hasTPC THEN FALSE
  ELSE IF track.tpcNClsCrossedRows < minCrossedRows THEN FALSE
  ELSE IF track.tpcCrossedRowsOverFindableCls < minCrossedRowsOverFindable
    THEN FALSE
  ELSE IF charge < 0 /\ track.sign > 0 THEN FALSE
  ELSE IF charge > 0 /\ track.sign < 0 THEN FALSE
  ELSE IF AbsEtaAbove(track) THEN FALSE
  ELSE IF track.tpcNClsFound < ConfDaughTPCnclsMin THEN FALSE
  ELSE IF Abs(track.dcaXY) < ConfDaughDCAMin THEN FALSE
  ELSE IF Abs(nsigmaV0Daughter) > ConfDaughPIDCuts THEN FALSE
  ELSE TRUE

\* ---------------------------------------------------------------- filters
\* Filter posZFilter
posZFilter(collision) == Abs(collision.posZ) < cutzvertex

\* Filter acceptanceFilter
acceptanceFilter(track) == AbsEtaBelow(track) /\ Abs(Pt(track)) > cfgCutPT

\* Filter DCAcutFilter
DCAcutFilter(track) ==
  Abs(track.dcaXY) < cfgCutDCAxy /\ Abs(track.dcaZ) < cfgCutDCAz

\* ------------------------------------------------------------- the tables
CollIds == DOMAIN collisions
TrackIds == DOMAIN tracks
V0Ids == DOMAIN V0s

\* EventCandidates: the collisions that pass the filter, in table order.
EventCandidates == SelectSeq([i \in CollIds |-> i],
                             LAMBDA c : posZFilter(collisions[c]))

\* TrackCandidates sliced by collision: the global indices, ascending, of
\* the tracks of collision c that pass both track filters.
TrackCandidates(c) ==
  SelectSeq([i \in TrackIds |-> i],
            LAMBDA t : tracks[t].collisionId = c
                         /\ acceptanceFilter(tracks[t])
                         /\ DCAcutFilter(tracks[t]))

\* aod::V0Datas sliced by collision.
V0Datas(c) ==
  SelectSeq([i \in V0Ids |-> i], LAMBDA v : V0s[v].collisionId = c)

\* posTrack_as / negTrack_as: the row of the track table at the daughter's
\* global index (filters do not apply to index dereferences).
posTrack(v0) == tracks[v0.posTrackId]
negTrack(v0) == tracks[v0.negTrackId]

\* The multiplicity estimate chosen by cfgMultFT0 / cfgCentFT0C.
Multiplicity(collision) ==
  IF cfg.cfgMultFT0 THEN collision.multZeqFT0A + collision.multZeqFT0C
  ELSE IF cfg.cfgCentFT0C THEN collision.centFT0C
  ELSE collision.centFT0M

\* One axis of a ColumnBinningPolicy built with ignoreOverflows = true:
\* the bin of x, or -1 when x is outside the axis.
AxisBin(x, lo, width, n) ==
  IF x < lo \/ x >= lo + n * width THEN -1 ELSE (x - lo) \div width

\* Faulty variant of binningOnPositions: the vertex axis is dropped from the key.
binningOnMultiplicityOnly(collision) ==
  AxisBin(collision.numContrib, axisMultiplicityLo, axisMultiplicityWidth,
          axisMultiplicityN)

\* BinningTypeVertexContributor binningOnPositions{{axisVertex,
\* axisMultiplicity}, true}: the bin of (posZ, numContrib), -1 for an outlier.
binningOnPositions(collision) ==
  LET zbin == AxisBin(collision.posZ, axisVertexLo, axisVertexWidth,
                      axisVertexN)
      mbin == AxisBin(collision.numContrib, axisMultiplicityLo,
                      axisMultiplicityWidth, axisMultiplicityN)
  IN  IF zbin = -1 \/ mbin = -1 THEN -1 ELSE zbin + axisVertexN * mbin


\* ------------------------------------------------------------ input pools
\* A track that passes the track filters, selectionPID, selectionTrack under
\* every configuration, and isSelectedV0Daughter for a positive daughter.
BaseTrack ==
  [collisionId |-> 1, px |-> 3000, py |-> 4000, pz |-> 1000, sign |-> 1,
   hasTOF |-> FALSE, tofNSigmaPi |-> 0, tpcNSigmaPi |-> 1,
   isGlobalTrack |-> TRUE, isGlobalTrackWoDCA |-> TRUE,
   isPVContributor |-> TRUE, itsNCls |-> 5, dcaXY |-> 10, dcaZ |-> 10,
   hasTPC |-> TRUE, tpcNClsCrossedRows |-> 100,
   tpcCrossedRowsOverFindableCls |-> 95, tpcNClsFound |-> 90]

\* The tracks of every collision of a data frame, by local index:
\*  1 a positive pion at low rapidity, 2 a negative pion with TOF that only
\*  its ITS clusters qualify, 3 a forward positive pion (eta about 0.77),
\*  4 a negative track outside the DCA filter, 5 a track failing the pion
\*  PID, 6 a pion that no policy-A condition qualifies.
TrackKinds ==
  << BaseTrack,
     [BaseTrack EXCEPT !.px = 5000, !.py = 0, !.pz = -1000, !.sign = -1,
                       !.hasTOF = TRUE, !.tofNSigmaPi = 2, !.tpcNSigmaPi = 2,
                       !.isGlobalTrack = FALSE, !.isGlobalTrackWoDCA = FALSE,
                       !.isPVContributor = FALSE, !.itsNCls = 3],
     [BaseTrack EXCEPT !.px = 6000, !.py = 8000, !.pz = 8500],
     [BaseTrack EXCEPT !.px = 0, !.py = 2500, !.pz = 0, !.sign = -1,
                       !.dcaXY = 250, !.isGlobalTrack = FALSE],
     [BaseTrack EXCEPT !.tpcNSigmaPi = 5],
     [BaseTrack EXCEPT !.px = 4000, !.py = 3000, !.pz = -500,
                       !.isGlobalTrack = FALSE, !.isGlobalTrackWoDCA = FALSE,
                       !.isPVContributor = FALSE, !.itsNCls = 0,
                       !.dcaXY = 150] >>

NTrackKinds == Len(TrackKinds)

\* The track table of a frame of n collisions: collision c owns the global
\* indices (c-1)*NTrackKinds + 1 .. c*NTrackKinds.
TrackTable(n) ==
  [i \in 1..(n * NTrackKinds) |->
     [TrackKinds[((i - 1) % NTrackKinds) + 1]
        EXCEPT !.collisionId = ((i - 1) \div NTrackKinds) + 1]]

GlobalTrack(c, k) == (c - 1) * NTrackKinds + k

\* A V0 that passes SelectionV0 under the default window.
BaseV0 ==
  [collisionId |-> 1, posTrackId |-> 1, negTrackId |-> 2,
   px |-> 3000, py |-> 4000, pz |-> 1000, mK0Short |-> massK0s,
   dcav0topv |-> 10, qtarm |-> 150, alpha |-> 500, v0radius |-> 300,
   dcaV0daughters |-> 20, v0cosPA |-> 995, distovertotmom |-> 1000]

\* The V0 shapes: accepted; alpha = 0; mass outside the default window;
\* qt/alpha = 0.15.
V0Kinds ==
  << BaseV0,
     [BaseV0 EXCEPT !.alpha = 0],
     [BaseV0 EXCEPT !.mK0Short = 5300],
     [BaseV0 EXCEPT !.qtarm = 75] >>

\* The daughter pairs (positive, negative) by local track index.
DaughterPairs == << <<1, 2>>, <<1, 4>>, <<3, 4>>, <<5, 4>> >>

\* Every (shape, daughters) a V0 row of a single-collision frame can have.
V0Options ==
  [i \in 1..(Len(V0Kinds) * Len(DaughterPairs)) |->
     [kind |-> ((i - 1) \div Len(DaughterPairs)) + 1,
      dau |-> ((i - 1) % Len(DaughterPairs)) + 1]]

V0Row(c, opt) ==
  [V0Kinds[opt.kind] EXCEPT
     !.collisionId = c,
     !.posTrackId = GlobalTrack(c, DaughterPairs[opt.dau][1]),
     !.negTrackId = GlobalTrack(c, DaughterPairs[opt.dau][2])]

\* The V0 content of a collision of a multi-collision frame.
LeanV0Contents ==
  { << [kind |-> 1, dau |-> 3] >>,
    << [kind |-> 1, dau |-> 1], [kind |-> 2, dau |-> 3] >> }

CollisionPool ==
  LET base == [sel8 |-> TRUE, posZ |-> -50, numContrib |-> 3,
               multZeqFT0A |-> 10, multZeqFT0C |-> 5, centFT0C |-> 20,
               centFT0M |-> 30]
  IN  { base,
        [base EXCEPT !.multZeqFT0A = 40, !.multZeqFT0C = 20,
                     !.centFT0C = 80, !.centFT0M = 70],
        [base EXCEPT !.posZ = 150],
        [base EXCEPT !.numContrib = 7],
        [base EXCEPT !.sel8 = FALSE],
        [base EXCEPT !.numContrib = 12000],
        [base EXCEPT !.posZ = 1200] }

\* The configurations: the defaults; policy A alone with every monitoring
\* histogram on and the FT0 multiplicity; both policies with centFT0M, the
\* V0 monitoring on and one mixing partner.
Configs ==
  LET default == [QAbefore |-> FALSE, QAafter |-> FALSE, QAv0 |-> FALSE,
                  cfgMultFT0 |-> FALSE, cfgCentFT0C |-> TRUE,
                  iscustomDCAcut |-> FALSE, ismanualDCAcut |-> TRUE,
                  cfgITScluster |-> 0, cfgNoMixedEvents |-> 5,
                  cWidthKs0 |-> 50, cSigmaMassKs0 |-> 4]
  IN  { default,
        [default EXCEPT !.QAbefore = TRUE, !.QAafter = TRUE, !.QAv0 = TRUE,
                        !.cfgMultFT0 = TRUE, !.iscustomDCAcut = TRUE,
                        !.ismanualDCAcut = FALSE, !.cfgITScluster = 3],
        [default EXCEPT !.QAv0 = TRUE, !.cfgCentFT0C = FALSE,
                        !.iscustomDCAcut = TRUE, !.cfgNoMixedEvents = 1] }

\* Strictly increasing sequences of at most k indices into 1..n.
IncreasingSeqs(n, k) ==
  { s \in UNION { [1..m -> 1..n] : m \in 0..k } :
      \A i \in 1..(Len(s) - 1) : s[i] < s[i + 1] }

\* Frames of one collision with at most MaxV0s V0 rows drawn from V0Options.
SingleFrames ==
  { [collisions |-> << c >>,
     tracks |-> TrackTable(1),
     V0s |-> [i \in 1..Len(s) |-> V0Row(1, V0Options[s[i]])]] :
      c \in CollisionPool, s \in IncreasingSeqs(Len(V0Options), MaxV0s) }

RECURSIVE Flatten(_)
Flatten(ss) == IF ss = << >> THEN << >> ELSE Head(ss) \o Flatten(Tail(ss))

\* Frames of 2..MaxColl collisions, each with a V0 content of LeanV0Contents.
MixFrames ==
  UNION { { [collisions |-> cs,
             tracks |-> TrackTable(n),
             V0s |-> Flatten([c \in 1..n |->
                        [i \in 1..Len(vs[c]) |-> V0Row(c, vs[c][i])]])] :
              cs \in [1..n -> CollisionPool], vs \in [1..n -> LeanV0Contents] }
          : n \in 2..MaxColl }

DataFrames == SingleFrames \cup MixFrames


\* ------------------------------------------------------------ accumulators
\* One histos.fill(HIST(hist), x...) call, tagged with the rows it was
\* computed from (0 where there is none): the track, the V0, and the
\* collision or collision pair being processed.
Fill(hist, x, pion, v0, c1, c2) ==
  [hist |-> hist, x |-> x, pion |-> pion, v0 |-> v0, c1 |-> c1, c2 |-> c2]

\* The bag of the fills of a set of emissions <<loop iteration, fill>>.
BagOfEmissions(E) ==
  [f \in { e[2] : e \in E } |-> Cardinality({ e \in E : e[2] = f })]

\* The four monitoring fills of a SelectionV0 call that returns true.
SelectionV0Fills(v, multiplicity, t1, c1, c2) ==
  IF cfg.QAv0
    THEN { Fill("hLT", << CtauK0s(V0s[v]) >>, t1, v, c1, c2),
           Fill("hMassvsptvsmult",
                << V0s[v].mK0Short, Pt(V0s[v]), multiplicity >>, t1, v, c1, c2),
           Fill("hDCAV0Daughters", << V0s[v].dcaV0daughters >>, t1, v, c1, c2),
           Fill("hV0CosPA", << V0s[v].v0cosPA >>, t1, v, c1, c2) }
    ELSE {}

\* ---------------------------------------------------------------- processSE
\* The track loop's two continue tests.
AcceptedPion(t) == selectionPID(tracks[t]) /\ selectionTrack(tracks[t])

\* The V0 loop's three continue tests.
AcceptedKshort(v) ==
  /\ isSelectedV0Daughter(posTrack(V0s[v]), 1, posTrack(V0s[v]).tpcNSigmaPi)
  /\ isSelectedV0Daughter(negTrack(V0s[v]), -1, negTrack(V0s[v]).tpcNSigmaPi)
  /\ SelectionV0(collisions[V0s[v].collisionId], V0s[v])

\* PionIndex after the track loop over the tracks of collision c.
PionIndex(c) == SelectSeq(TrackCandidates(c), AcceptedPion)

\* The V0 rows behind kshorts after the V0 loop over the V0s of collision c.
KshortRow(c) == SelectSeq(V0Datas(c), AcceptedKshort)

\* Faulty variant of SEPairPasses: the negative-daughter test is missing.
SEPairPassesPosOnly(pionIdx, pionColl, posIdx, negIdx, v0Coll) ==
  ~(pionIdx = posIdx) /\ ~(pionColl # v0Coll)

\* Faulty variant of SEPairPasses: a pion that is a daughter of some accepted V0 is
\* dropped for every V0 (posIdx and negIdx are then ignored).
SEPairPassesNoDaughterAtAll(pionIdx, pionColl, posIdx, negIdx, v0Coll) ==
  /\ \A v \in V0Ids : AcceptedKshort(v) =>
        pionIdx # V0s[v].posTrackId /\ pionIdx # V0s[v].negTrackId
  /\ ~(pionColl # v0Coll)

\* The three continue tests of the pair loop.
SEPairPasses(pionIdx, pionColl, posIdx, negIdx, v0Coll) ==
  ~(pionIdx = posIdx) /\ ~(pionIdx = negIdx) /\ ~(pionColl # v0Coll)

\* Faulty variant of SERapidityGate: the sum is filled whatever its rapidity.
SERapidityGateOpen(v) == TRUE

\* Faulty variant of SERapidityGate: the member CKSVector is tested as the
\* previous assignment left it, not as the sum of this pair.
SERapidityGateStale(v) == RapidityBelowHalf(CKSVector)

\* if (TMath::Abs(CKSVector.Rapidity()) < 0.5)
SERapidityGate(v) == RapidityBelowHalf(v)

\* Faulty variant of SEEventSelected: the sel8 test is missing.
SEEventSelectedAlways(collision) == TRUE

\* if (!collision.sel8()) return;
SEEventSelected(collision) == collision.sel8

\* The pair-loop iterations <<i1, i3>> that reach the CKSVector assignment.
\* PI is PionIndex and KR the V0 rows behind kshorts.
SEPairs(PI, KR) ==
  { p \in (1..Len(PI)) \X (1..Len(KR)) :
      SEPairPasses(PI[p[1]], tracks[PI[p[1]]].collisionId,
                   V0s[KR[p[2]]].posTrackId, V0s[KR[p[2]]].negTrackId,
                   V0s[KR[p[2]]].collisionId) }

\* pions.at(i1) + kshorts.at(i3), by table rows.
PairVector(t, v) ==
  VecAdd(PtEtaPhiMVector(tracks[t], massPi), PtEtaPhiMVector(V0s[v], massK0s))

\* Every fill processSE emits for collision c, as emissions.
SEEmissions(c) ==
  LET collision == collisions[c]
      multiplicity == Multiplicity(collision)
      TC == TrackCandidates(c)
      PI == PionIndex(c)
      KR == KshortRow(c)
      event == { << <<"event", 1>>,
                    Fill("hVertexZRec", << collision.posZ >>, 0, 0, c, 0) >>,
                 << <<"event", 2>>,
                    Fill("hmult", << multiplicity >>, 0, 0, c, 0) >> }
      before == IF cfg.QAbefore
                  THEN UNION { { << <<"before", i, 1>>,
                                    Fill("hNsigmaPionTPC_before",
                                         << tracks[TC[i]].tpcNSigmaPi >>,
                                         TC[i], 0, c, 0) >>,
                                 << <<"before", i, 2>>,
                                    Fill("hNsigmaPionTOF_before",
                                         << tracks[TC[i]].tofNSigmaPi >>,
                                         TC[i], 0, c, 0) >> }
                               : i \in 1..Len(TC) }
                  ELSE {}
      after == IF cfg.QAafter
                 THEN UNION { { << <<"after", i, h[1]>>,
                                   Fill(h[1], h[2], PI[i], 0, c, 0) >>
                                \* eta is carried as (pz, pt)
                                : h \in { <<"hEta_after",
                                            << tracks[PI[i]].pz,
                                               Pt(tracks[PI[i]]) >> >>,
                                          <<"hDcaxy_after",
                                            << tracks[PI[i]].dcaXY >> >>,
                                          <<"hDcaz_after",
                                            << tracks[PI[i]].dcaZ >> >>,
                                          <<"hNsigmaPionTPC_after",
                                            << tracks[PI[i]].tpcNSigmaPi >> >>,
                                          <<"hNsigmaPionTOF_after",
                                            << tracks[PI[i]].tofNSigmaPi >> >> } }
                              : i \in 1..Len(PI) }
                 ELSE {}
      v0qa == UNION { { << <<"v0", i>>, f >>
                        : f \in SelectionV0Fills(KR[i], multiplicity, 0, c, 0) }
                      : i \in 1..Len(KR) }
      sum == [p \in SEPairs(PI, KR) |-> PairVector(PI[p[1]], KR[p[2]])]
      mass == { << <<"pair", p>>,
                   Fill("h3CKSInvMassUnlikeSign",
                        << multiplicity, VecPt(sum[p]), VecM(sum[p]) >>,
                        PI[p[1]], KR[p[2]], c, 0) >>
                : p \in { q \in DOMAIN sum : SERapidityGate(sum[q]) } }
  IN  event \cup before \cup after \cup v0qa \cup mass

\* The value the member CKSVector holds when processSE returns: the sum of
\* the last pair that reached the assignment, else what it held before.
SELastVector(c, old) ==
  LET PI == PionIndex(c)
      KR == KshortRow(c)
      S == SEPairs(PI, KR)
  IN  IF S = {} THEN old
      ELSE LET last == CHOOSE p \in S :
                         \A q \in S : q[1] < p[1]
                                        \/ (q[1] = p[1] /\ q[2] <= p[2])
           IN  PairVector(PI[last[1]], KR[last[2]])

\* processSE, called by the framework on the next collision of
\* EventCandidates with that collision's tracks and V0s.
ProcessSE ==
  /\ seNext <= Len(EventCandidates)
  /\ LET c == EventCandidates[seNext]
         fills == IF SEEventSelected(collisions[c])
                    THEN BagOfEmissions(SEEmissions(c))
                    ELSE EmptyBag
     IN  /\ histos' = histos (+) fills
         /\ lastCall' = [op |-> "processSE", c |-> c, fills |-> fills]
         /\ CKSVector' = IF SEEventSelected(collisions[c])
                           THEN SELastVector(c, CKSVector)
                           ELSE CKSVector
  /\ seNext' = seNext + 1
  /\ UNCHANGED <<cfg, collisions, tracks, V0s, meDone, ret>>


\* ---------------------------------------------------------------- processME
\* The bin the pair generator keys a collision on.
MixingBin(c) == binningOnPositions(collisions[c])

\* Pair<...> pair{binningOnPositions, cfgNoMixedEvents, -1, &cache}: the
\* collision pairs the generator supplies, each filtered collision with the
\* next cfgNoMixedEvents filtered collisions of its own bin; collisions of
\* the outlier bin -1 are left out.
pair ==
  LET EC == { EventCandidates[i] : i \in 1..Len(EventCandidates) }
  IN  { p \in EC \X EC :
          /\ p[1] < p[2]
          /\ MixingBin(p[1]) # -1
          /\ MixingBin(p[1]) = MixingBin(p[2])
          /\ Cardinality({ c \in EC : /\ p[1] < c
                                      /\ c < p[2]
                                      /\ MixingBin(c) = MixingBin(p[1]) })
               < cfg.cfgNoMixedEvents }

\* Faulty variant of MEEventSelected: only the first collision's flag is tested.
MEEventSelectedFirstOnly(c1, c2) == c1.sel8

\* if (!c1.sel8()) continue; if (!c2.sel8()) continue;
MEEventSelected(c1, c2) == c1.sel8 /\ c2.sel8

\* Faulty variant of MEMultiplicity: the estimate is taken from the second collision.
MEMultiplicityOfSecond(c1, c2) == Multiplicity(c2)

\* The multiplicity processME computes for a pair.
MEMultiplicity(c1, c2) == Multiplicity(c1)

\* if (TMath::Abs(CKSmix.Rapidity()) < 0.5)
MERapidityGate(v) == RapidityBelowHalf(v)

\* The first three continue tests of the combinations loop.
MEPassesSelection(c2, t1, t2) ==
  /\ selectionTrack(tracks[t1])
  /\ selectionPID(tracks[t1])
  /\ SelectionV0(collisions[c2], V0s[t2])

\* The two daughter tests of the combinations loop.
MEPassesDaughters(t2) ==
  /\ isSelectedV0Daughter(posTrack(V0s[t2]), 1, posTrack(V0s[t2]).tpcNSigmaPi)
  /\ isSelectedV0Daughter(negTrack(V0s[t2]), -1, negTrack(V0s[t2]).tpcNSigmaPi)

\* The iterations <<c1, c2, t1, t2>> of the combinations loop over
\* CombinationsFullIndexPolicy(tracks1, tracks2), for the pairs whose two
\* collisions are selected.
MECombinations ==
  UNION { LET tracks1 == TrackCandidates(p[1])
              tracks2 == V0Datas(p[2])
          IN  { << p[1], p[2], tracks1[i], tracks2[j] >> :
                  i \in 1..Len(tracks1), j \in 1..Len(tracks2) }
          : p \in { q \in pair :
                      MEEventSelected(collisions[q[1]], collisions[q[2]]) } }

\* Every fill processME emits, as emissions.
MEEmissions ==
  LET sel == { it \in MECombinations : MEPassesSelection(it[2], it[3], it[4]) }
      mult(it) == MEMultiplicity(collisions[it[1]], collisions[it[2]])
      v0qa == UNION { { << <<"v0", it>>, f >>
                        : f \in SelectionV0Fills(it[4], mult(it), it[3],
                                                 it[1], it[2]) }
                      : it \in sel }
      CKSmix == [it \in { x \in sel : MEPassesDaughters(x[4]) } |->
                   PairVector(it[3], it[4])]
      mass == { << <<"pair", it>>,
                   Fill("h3CKSInvMassMixed",
                        << mult(it), VecPt(CKSmix[it]), VecM(CKSmix[it]) >>,
                        it[3], it[4], it[1], it[2]) >>
                : it \in { x \in DOMAIN CKSmix : MERapidityGate(CKSmix[x]) } }
  IN  v0qa \cup mass

\* processME, called once per data frame after the processSE calls.
ProcessME ==
  /\ seNext > Len(EventCandidates)
  /\ ~meDone
  /\ LET fills == BagOfEmissions(MEEmissions)
     IN  /\ histos' = histos (+) fills
         /\ lastCall' = [op |-> "processME", c |-> 0, fills |-> fills]
  /\ meDone' = TRUE
  /\ UNCHANGED <<cfg, collisions, tracks, V0s, seNext, CKSVector, ret>>

\* ------------------------------------------------------ the task on a frame
NoCall == [op |-> "none", c |-> 0, fills |-> EmptyBag]
NoRet == [fn |-> "none", arg |-> 0, val |-> FALSE]
NoVector == [px |-> 0, py |-> 0, pz |-> 0, E |-> 0]

Init ==
  /\ cfg \in Configs
  /\ \E f \in DataFrames :
       /\ collisions = f.collisions
       /\ tracks = f.tracks
       /\ V0s = f.V0s
  /\ seNext = 1
  /\ meDone = FALSE
  /\ histos = EmptyBag
  /\ lastCall = NoCall
  /\ CKSVector = NoVector
  /\ ret = NoRet

Next == ProcessSE \/ ProcessME

Spec == Init /\ [][Next]_vars


\* ------------------------------------------------- the selectors on their own
\* Track rows over every combination of the columns selectionTrack reads.
SelTracks ==
  { [BaseTrack EXCEPT !.isGlobalTrack = g, !.isGlobalTrackWoDCA = w,
                      !.isPVContributor = pv, !.itsNCls = n,
                      !.dcaXY = dxy, !.dcaZ = dz] :
      g \in BOOLEAN, w \in BOOLEAN, pv \in BOOLEAN, n \in {0, 3, 5},
      dxy \in {10, -150, 250}, dz \in {10, 250} }

\* V0 rows over the columns SelectionV0 reads, each cut on both sides.
SelV0s ==
  { [BaseV0 EXCEPT !.mK0Short = m, !.qtarm = a[1], !.alpha = a[2],
                   !.dcav0topv = d, !.pz = z, !.dcaV0daughters = dd,
                   !.v0cosPA = cpa, !.v0radius = r, !.distovertotmom = l] :
      m \in {4769, 4770, 4775, 4776, 4970, 4976, 5170, 5171, 5176, 5177},
      a \in { <<150, 500>>, <<75, 500>>, <<150, 0>>, <<0, 0>>, <<150, -500>> },
      d \in {10, -40}, z \in {1000, 6000}, dd \in {20, 150},
      cpa \in {995, 900}, r \in {300, 10, 30000}, l \in {1000, 4000} }

\* The policy switches with both cluster thresholds.
SelTrackConfigs ==
  { [c EXCEPT !.iscustomDCAcut = a, !.ismanualDCAcut = b,
              !.cfgITScluster = n] :
      c \in { x \in Configs : ~x.QAv0 }, a \in BOOLEAN, b \in BOOLEAN,
      n \in {0, 3} }

\* The default mass window, an empty one and a narrow one.
SelV0Configs ==
  { [c EXCEPT !.cWidthKs0 = w[1], !.cSigmaMassKs0 = w[2]] :
      c \in { x \in Configs : ~x.QAv0 },
      w \in { <<50, 4>>, <<0, 4>>, <<1, 3>> } }

InitSel ==
  /\ collisions = << CHOOSE c \in CollisionPool :
                       c.sel8 /\ posZFilter(c) /\ c.numContrib = 3
                         /\ c.centFT0C = 20 >>
  /\ \/ /\ cfg \in SelTrackConfigs
        /\ tracks \in { << t >> : t \in SelTracks }
        /\ V0s = << BaseV0 >>
     \/ /\ cfg \in SelV0Configs
        /\ tracks = << BaseTrack >>
        /\ V0s \in { << [v EXCEPT !.negTrackId = 1] >> : v \in SelV0s }
  /\ seNext = 1
  /\ meDone = FALSE
  /\ histos = EmptyBag
  /\ lastCall = NoCall
  /\ CKSVector = NoVector
  /\ ret = NoRet

\* selectionTrack applied to a row of the filtered track table, as both
\* engines apply it.
CallSelectionTrack ==
  /\ \E i \in 1..Len(EventCandidates) :
       \E j \in 1..Len(TrackCandidates(EventCandidates[i])) :
         LET t == TrackCandidates(EventCandidates[i])[j]
         IN  ret' = [fn |-> "selectionTrack", arg |-> t,
                     val |-> selectionTrack(tracks[t])]
  /\ UNCHANGED <<cfg, collisions, tracks, V0s, seNext, meDone, histos,
                 lastCall, CKSVector>>

\* SelectionV0 applied to a row of the V0 table with its own collision.
CallSelectionV0 ==
  /\ \E v \in V0Ids :
       ret' = [fn |-> "SelectionV0", arg |-> v,
               val |-> SelectionV0(collisions[V0s[v].collisionId], V0s[v])]
  /\ UNCHANGED <<cfg, collisions, tracks, V0s, seNext, meDone, histos,
                 lastCall, CKSVector>>

NextSel == CallSelectionTrack \/ CallSelectionV0

SpecSel == InitSel /\ [][NextSel]_vars


\* ------------------------------------------- processSE repeated on one input
\* The calls processSE has made on selected collision c: each one fills the
\* event counter hVertexZRec once.
SERuns(c) ==
  CopiesIn(Fill("hVertexZRec", << collisions[c].posZ >>, 0, 0, c, 0), histos)

\* processSE called again on the collision, tracks and V0s of its last call;
\* the task object, and with it the member CKSVector, is the same.
ProcessSEAgain ==
  /\ lastCall.op = "processSE"
  /\ SERuns(lastCall.c) < MaxRuns
  /\ LET c == lastCall.c
         fills == IF SEEventSelected(collisions[c])
                    THEN BagOfEmissions(SEEmissions(c))
                    ELSE EmptyBag
     IN  /\ histos' = histos (+) fills
         /\ lastCall' = [op |-> "processSE", c |-> c, fills |-> fills]
         /\ CKSVector' = IF SEEventSelected(collisions[c])
                           THEN SELastVector(c, CKSVector)
                           ELSE CKSVector
  /\ UNCHANGED <<cfg, collisions, tracks, V0s, seNext, meDone, ret>>

\* A frame of one collision.
InitRerun ==
  /\ cfg \in Configs
  /\ \E f \in SingleFrames :
       /\ collisions = f.collisions
       /\ tracks = f.tracks
       /\ V0s = f.V0s
  /\ seNext = 1
  /\ meDone = FALSE
  /\ histos = EmptyBag
  /\ lastCall = NoCall
  /\ CKSVector = NoVector
  /\ ret = NoRet

NextRerun == ProcessSE \/ ProcessSEAgain

SpecRerun == InitRerun /\ [][NextRerun]_vars

\* ================================================================== claims
Fills == BagToSet(histos)
SEMassFills == { f \in Fills : f.hist = "h3CKSInvMassUnlikeSign" }
MEMassFills == { f \in Fills : f.hist = "h3CKSInvMassMixed" }

\* The same-event mass fill the pair (track t, V0 v) of collision c makes.
SEMassFill(c, t, v) ==
  LET sum == PairVector(t, v)
  IN  Fill("h3CKSInvMassUnlikeSign",
           << Multiplicity(collisions[c]), VecPt(sum), VecM(sum) >>, t, v, c, 0)

\* The mixed-event mass fill the pair (track t1 of c1, V0 t2 of c2) makes.
MEMassFill(c1, c2, t1, t2) ==
  LET sum == PairVector(t1, t2)
  IN  Fill("h3CKSInvMassMixed",
           << Multiplicity(collisions[c1]), VecPt(sum), VecM(sum) >>,
           t1, t2, c1, c2)

\* Track t is a row of the track table processSE / processME receive for c.
IsTrackOf(t, c) ==
  /\ tracks[t].collisionId = c
  /\ acceptanceFilter(tracks[t]) /\ DCAcutFilter(tracks[t])

\* The collisions processSE has been called on.
SEProcessed == { EventCandidates[i] : i \in 1..(seNext - 1) }

\* An accepted pion and an accepted V0 of collision c.
SEAcceptedPion(t, c) ==
  IsTrackOf(t, c) /\ selectionPID(tracks[t]) /\ selectionTrack(tracks[t])
SEAcceptedV0(v, c) ==
  /\ V0s[v].collisionId = c
  /\ isSelectedV0Daughter(posTrack(V0s[v]), 1, posTrack(V0s[v]).tpcNSigmaPi)
  /\ isSelectedV0Daughter(negTrack(V0s[v]), -1, negTrack(V0s[v]).tpcNSigmaPi)
  /\ SelectionV0(collisions[c], V0s[v])

IsDaughter(t, v) == t = V0s[v].posTrackId \/ t = V0s[v].negTrackId

\* C1: no same-event mass fill is for a pair whose pion is the positive or
\* the negative daughter of its V0.
C1_NoSelfOverlap ==
  \A f \in SEMassFills : ~IsDaughter(f.pion, f.v0)

\* C1 witness: processSE has run on a selected collision in which an
\* accepted pion is the negative daughter of an accepted V0, the pair is
\* inside the rapidity gate, and the same pion was filled with another V0.
C1_Witness ==
  \E c \in SEProcessed, t \in TrackIds, v \in V0Ids, w \in V0Ids :
    /\ collisions[c].sel8
    /\ SEAcceptedPion(t, c) /\ SEAcceptedV0(v, c)
    /\ t = V0s[v].negTrackId
    /\ RapidityBelowHalf(PairVector(t, v))
    /\ SEMassFill(c, t, w) \in Fills

\* C2: every mass fill, same-event or mixed-event, is for a sum with
\* |rapidity| < 0.5.
C2_RapidityGate ==
  \A f \in SEMassFills \cup MEMassFills :
    RapidityBelowHalf(PairVector(f.pion, f.v0))

\* C2 witness: both engines have run; the same-event engine met an accepted,
\* non-overlapping pair outside the gate and filled another one.
C2_Witness ==
  /\ meDone
  /\ SEMassFills # {}
  /\ \E c \in SEProcessed, t \in TrackIds, v \in V0Ids :
       /\ collisions[c].sel8
       /\ SEAcceptedPion(t, c) /\ SEAcceptedV0(v, c) /\ ~IsDaughter(t, v)
       /\ ~RapidityBelowHalf(PairVector(t, v))

\* C3: a processSE call on a collision whose sel8 flag is false emits no
\* fill at all, and no same-event fill in the accumulators is for such a
\* collision.
C3_NoFillWithoutSel8 ==
  /\ lastCall.op = "processSE" /\ ~collisions[lastCall.c].sel8
       => lastCall.fills = EmptyBag
  /\ \A f \in Fills : f.c2 = 0 => collisions[f.c1].sel8

\* C3 witness: processSE has just run on an unselected collision that has
\* an accepted pion and an accepted V0 not sharing a daughter.
C3_Witness ==
  /\ lastCall.op = "processSE"
  /\ ~collisions[lastCall.c].sel8
  /\ \E t \in TrackIds, v \in V0Ids :
       /\ SEAcceptedPion(t, lastCall.c) /\ SEAcceptedV0(v, lastCall.c)
       /\ ~IsDaughter(t, v)
       /\ RapidityBelowHalf(PairVector(t, v))

\* The buckets of a collision on the two axes of the mixing bin key.
VertexBucket(c) ==
  AxisBin(collisions[c].posZ, axisVertexLo, axisVertexWidth, axisVertexN)
NumContribBucket(c) ==
  AxisBin(collisions[c].numContrib, axisMultiplicityLo, axisMultiplicityWidth,
          axisMultiplicityN)
\* The bucket, on the multiplicity axis, of the estimate used as the fill's
\* multiplicity coordinate.
EstimatorBucket(c) ==
  AxisBin(Multiplicity(collisions[c]), axisMultiplicityLo,
          axisMultiplicityWidth, axisMultiplicityN)

\* C4 as claimed: every mixed-event mass fill is for two different
\* collisions with the same (vertex-z bucket, bucket of the configured
\* multiplicity estimator).
C4_SameEstimatorBin ==
  \A f \in MEMassFills :
    /\ f.c1 # f.c2
    /\ VertexBucket(f.c1) = VertexBucket(f.c2)
    /\ EstimatorBucket(f.c1) = EstimatorBucket(f.c2)

\* C4 as amended: every mixed-event mass fill is for two different
\* collisions with the same (vertex-z bucket, bucket of the number of
\* vertex contributors), neither bucket an overflow.
C4_SameContribBin ==
  \A f \in MEMassFills :
    /\ f.c1 # f.c2
    /\ VertexBucket(f.c1) = VertexBucket(f.c2)
    /\ NumContribBucket(f.c1) = NumContribBucket(f.c2)
    /\ VertexBucket(f.c1) # -1 /\ NumContribBucket(f.c1) # -1

\* C4 witness: a mixed-event mass fill whose two collisions differ in the
\* bucket of the configured estimator.
C4_Witness ==
  \E f \in MEMassFills : EstimatorBucket(f.c1) # EstimatorBucket(f.c2)

\* C5: every fill processME emits, mass or V0 monitoring, is for a pair
\* whose two collisions both have sel8 set.
C5_BothSel8 ==
  \A f \in Fills : f.c2 # 0 => collisions[f.c1].sel8 /\ collisions[f.c2].sel8

\* C5 witness: processME has run on a frame where the generator supplies a
\* pair whose first collision is selected and whose second is not, with an
\* accepted pion in the first and an accepted V0 in the second.
C5_Witness ==
  /\ meDone
  /\ \E p \in pair, t \in TrackIds, v \in V0Ids :
       /\ collisions[p[1]].sel8 /\ ~collisions[p[2]].sel8
       /\ SEAcceptedPion(t, p[1]) /\ SEAcceptedV0(v, p[2])
       /\ RapidityBelowHalf(PairVector(t, v))

\* The (track of c1, V0 of c2) pairs that pass every mixed-event test.
MEExpected(c1, c2) ==
  { q \in { t \in TrackIds : SEAcceptedPion(t, c1) }
            \X { v \in V0Ids : SEAcceptedV0(v, c2) } :
      RapidityBelowHalf(PairVector(q[1], q[2])) }

\* The mixed-event mass fills of histos made for the collision pair p.
MEMassFillsOf(p) == { f \in MEMassFills : f.c1 = p[1] /\ f.c2 = p[2] }

\* C6: once processME has run, for every supplied pair (c1, c2) with both
\* flags set the mixed-event mass fills are exactly one per passing
\* (track of c1, V0 of c2) pair, each with c1's multiplicity estimate, and
\* every mixed-event mass fill pairs a track of its first collision with a
\* V0 of its second.
C6_MixedFillCount ==
  meDone =>
    /\ \A p \in pair :
         collisions[p[1]].sel8 /\ collisions[p[2]].sel8 =>
           LET expected == MEExpected(p[1], p[2])
           IN  /\ \A q \in expected :
                    CopiesIn(MEMassFill(p[1], p[2], q[1], q[2]), histos) = 1
               /\ Cardinality(MEMassFillsOf(p)) = Cardinality(expected)
               /\ \A f \in MEMassFillsOf(p) : CopiesIn(f, histos) = 1
    /\ \A f \in MEMassFills :
         /\ <<f.c1, f.c2>> \in pair
         /\ tracks[f.pion].collisionId = f.c1
         /\ V0s[f.v0].collisionId = f.c2

\* C6 witness: a mixed-event mass fill for two collisions with different
\* multiplicity estimates, where the first collision also has an accepted
\* V0 and the second an accepted pion.
C6_Witness ==
  /\ meDone
  /\ \E f \in MEMassFills, t \in TrackIds, v \in V0Ids :
       /\ Multiplicity(collisions[f.c1]) # Multiplicity(collisions[f.c2])
       /\ SEAcceptedPion(t, f.c2) /\ SEAcceptedV0(v, f.c1)

\* C7: after processSE on a selected collision, every accepted pion p and
\* accepted V0 k of it with p not a daughter of k and |rapidity of p+k| < 0.5
\* has exactly one same-event mass fill (multiplicity, pT, mass of the sum).
C7_OneFillPerPair ==
  \A c \in SEProcessed :
    collisions[c].sel8 =>
      \A t \in { x \in TrackIds : SEAcceptedPion(x, c) } :
        \A v \in { x \in V0Ids : SEAcceptedV0(x, c) } :
          ~IsDaughter(t, v) /\ RapidityBelowHalf(PairVector(t, v))
            => CopiesIn(SEMassFill(c, t, v), histos) = 1

\* C7 witness: a same-event mass fill for a pion that is a daughter of
\* another accepted V0 of the same collision.
C7_Witness ==
  \E f \in SEMassFills, w \in V0Ids :
    /\ w # f.v0
    /\ SEAcceptedV0(w, f.c1)
    /\ IsDaughter(f.pion, w)

OtherV0CutsPass(v) ==
  /\ Abs(v.dcav0topv) <= cMaxV0DCA
  /\ ~AbsYK0ShortAboveHalf(v)
  /\ Pt(v) >= ConfV0PtMin
  /\ v.dcaV0daughters <= ConfV0DCADaughMax
  /\ v.v0cosPA >= ConfV0CPAMin
  /\ v.v0radius >= ConfV0TranRadV0Min /\ v.v0radius <= ConfV0TranRadV0Max
  /\ Abs(CtauK0s(v)) <= cMaxV0LifeTime
  /\ v.alpha # 0 /\ ~ArmBelowCut(v.qtarm, v.alpha)

\* C9: SelectionV0 rejects a candidate whose mass is strictly outside
\* [massK0s - width*nSigma, massK0s + width*nSigma] and accepts one whose
\* mass is exactly massK0s when every other cut passes.
C9_NominalMassWindow ==
  ret.fn = "SelectionV0" =>
    LET v == V0s[ret.arg]
        w == cfg.cWidthKs0 * cfg.cSigmaMassKs0
    IN  /\ v.mK0Short < massK0s - w \/ v.mK0Short > massK0s + w => ~ret.val
        /\ v.mK0Short = massK0s /\ OtherV0CutsPass(v) => ret.val

\* C10: no fill of any accumulator is for a V0 whose alpha is 0.
C10_ZeroAlphaRejected ==
  \A f \in Fills : f.v0 # 0 => V0s[f.v0].alpha # 0


\* C11: a processSE call that follows a processSE call on the same
\* collision, tracks and V0s emits the same bag of fills as that call.
C11_Idempotent ==
  [][lastCall.op = "processSE" /\ lastCall'.op = "processSE"
       /\ lastCall'.c = lastCall.c
     => lastCall'.fills = lastCall.fills]_vars

\* C11 witness: processSE has run twice on a collision, the first run left
\* a sum in CKSVector, and a mass fill is in the accumulator twice.
C11_Witness ==
  /\ lastCall.op = "processSE"
  /\ SERuns(lastCall.c) >= 2
  /\ CKSVector # NoVector
  /\ \E f \in SEMassFills : f \in DOMAIN lastCall.fills /\ CopiesIn(f, histos) >= 2

====
